---------------------------- MODULE Spec2Model ----------------------------
(***************************************************************************)
(* Client bindings of the ACCESS staking / bond program.                   *)
(*                                                                         *)
(*   smart-contract/js/src/bindings.ts : the instruction builders          *)
(*   unnamed/part_000                  : the account locators              *)
(*                                                                         *)
(* Every exported function is an async function.  A call is modelled as a  *)
(* small process: it runs synchronously up to its next remote read, is     *)
(* suspended while the read is in flight, and is resumed with the decoded  *)
(* account (or with the error the read raised).  Several calls may be in   *)
(* flight at once.                                                         *)
(***************************************************************************)
EXTENDS Integers, Sequences, FiniteSets, TLC

(***************************************************************************)
(* Bounds of the model.                                                    *)
(***************************************************************************)
\* Width of a public key in bytes (32 on chain; the encodings below are
\* the real ones, computed on keys of this width).
KeyLen == 2
\* Number of calls that may be in flight at the same time.
NumCalls == 2

(***************************************************************************)
(* Bytes, public keys and base58.                                          *)
(***************************************************************************)
Byte == 0..255

RECURSIVE Pow(_, _)
Pow(b, e) == IF e = 0 THEN 1 ELSE b * Pow(b, e - 1)

\* The number of distinct public keys of the modelled width.
KeySpace == Pow(256, KeyLen)

\* Big-endian bytes of n, without leading zero bytes (empty for 0).
RECURSIVE BytesOf(_)
BytesOf(n) == IF n = 0 THEN <<>> ELSE Append(BytesOf(n \div 256), n % 256)

\* Value of a big-endian byte string.
RECURSIVE ValueOf(_)
ValueOf(bs) ==
  IF bs = <<>> THEN 0
  ELSE 256 * ValueOf(SubSeq(bs, 1, Len(bs) - 1)) + bs[Len(bs)]

Zeros(n) == [i \in 1..n |-> 0]

\* PublicKey.toBuffer(): the key's number as big-endian bytes, left-padded
\* with zero bytes to the key width.
ToBuffer(key) ==
  LET b == BytesOf(key) IN Zeros(KeyLen - Len(b)) \o b

\* The base58 alphabet; the character at position i stands for digit i-1.
Alphabet ==
  << "1", "2", "3", "4", "5", "6", "7", "8", "9",
     "A", "B", "C", "D", "E", "F", "G", "H", "J", "K", "L", "M", "N", "P",
     "Q", "R", "S", "T", "U", "V", "W", "X", "Y", "Z",
     "a", "b", "c", "d", "e", "f", "g", "h", "i", "j", "k", "m", "n", "o",
     "p", "q", "r", "s", "t", "u", "v", "w", "x", "y", "z" >>

Base == Len(Alphabet)

DigitOf(ch) == (CHOOSE i \in 1..Base : Alphabet[i] = ch) - 1

\* Number of leading elements of s equal to x.
RECURSIVE LeadingCount(_, _)
LeadingCount(s, x) ==
  IF s = <<>> \/ s[1] # x THEN 0 ELSE 1 + LeadingCount(Tail(s), x)

\* Base58 digits (as characters) of n, most significant first; empty for 0.
RECURSIVE Base58Digits(_)
Base58Digits(n) ==
  IF n = 0 THEN <<>>
  ELSE Append(Base58Digits(n \div Base), Alphabet[(n % Base) + 1])

\* Value of a string of base58 characters.
RECURSIVE Base58Value(_)
Base58Value(s) ==
  IF s = <<>> THEN 0
  ELSE Base * Base58Value(SubSeq(s, 1, Len(s) - 1)) + DigitOf(s[Len(s)])

\* bs58.encode: one "1" per leading zero byte, then the digits of the rest.
Base58Encode(bs) ==
  LET z == LeadingCount(bs, 0)
  IN  [i \in 1..z |-> "1"] \o Base58Digits(ValueOf(bs))

\* bs58.decode, as the RPC node applies it to a memcmp pattern: one zero
\* byte per leading "1", then the bytes of the number the rest spells.
Base58Decode(s) ==
  LET z == LeadingCount(s, "1")
  IN  Zeros(z) \o BytesOf(Base58Value(s))

\* PublicKey.toBase58()
ToBase58(key) == Base58Encode(ToBuffer(key))

(***************************************************************************)
(* Well-known program ids and the keys the callers use.                    *)
(***************************************************************************)
\* SystemProgram.programId: the all-zero key ("11...1" in base58).
SystemProgramId == ValueOf(Zeros(KeyLen))
TOKEN_PROGRAM_ID == ValueOf(<<6, 221>>)
ASSOCIATED_TOKEN_PROGRAM_ID == ValueOf(<<140, 151>>)
ACCESS_PROGRAM_ID == ValueOf(<<7, 1>>)

\* Wallets.  Alice's key has a leading zero byte, Carol's is below 58.
Alice == ValueOf(<<0, 200>>)
Bob   == ValueOf(<<13, 36>>)
Carol == ValueOf(<<0, 33>>)
Wallets == {Alice, Bob, Carol}

\* Token accounts and mints that appear as arguments or account fields.
Mint1 == ValueOf(<<90, 1>>)
Vault1 == ValueOf(<<91, 1>>)
Vault2 == ValueOf(<<91, 2>>)
Vault3 == ValueOf(<<91, 3>>)
TokenAcc1 == ValueOf(<<92, 1>>)
TokenAcc2 == ValueOf(<<92, 2>>)
SYSVAR_RENT_PUBKEY == ValueOf(<<6, 167>>)

\* Addresses at which program accounts live.
Pool1 == ValueOf(<<100, 1>>)
Pool2 == ValueOf(<<100, 2>>)
StakeAcc1 == ValueOf(<<101, 1>>)
StakeAcc2 == ValueOf(<<101, 2>>)
Bond1 == ValueOf(<<102, 1>>)
Bond2 == ValueOf(<<102, 2>>)
Bond3 == ValueOf(<<102, 3>>)

(***************************************************************************)
(* Derived addresses.                                                      *)
(***************************************************************************)
RECURSIVE Flatten(_)
Flatten(seeds) ==
  IF seeds = <<>> THEN <<>> ELSE seeds[1] \o Flatten(Tail(seeds))

\* A hash of a byte string onto the key space.
RECURSIVE HashBytes(_)
HashBytes(bs) ==
  IF bs = <<>> THEN 7
  ELSE (31 * HashBytes(SubSeq(bs, 1, Len(bs) - 1)) + bs[Len(bs)] + 1) % KeySpace

\* Whether a candidate address lies on the curve (and so has a private key).
OnCurve(h) == h % 3 = 0

\* PublicKey.findProgramAddress: the first bump seed, counting down from
\* 255, whose hash is off the curve; returns <<address, nonce>>.
RECURSIVE FindFrom(_, _, _)
FindFrom(seeds, programId, nonce) ==
  LET h == HashBytes(Flatten(seeds) \o <<nonce>> \o ToBuffer(programId))
  IN  IF nonce = 0 \/ ~OnCurve(h) THEN <<h, nonce>>
      ELSE FindFrom(seeds, programId, nonce - 1)

FindProgramAddress(seeds, programId) == FindFrom(seeds, programId, 255)

\* CentralState.getKey(programId)
CentralStateGetKey(programId) ==
  FindProgramAddress(<<ToBuffer(programId)>>, programId)

\* StakePool.getKey(programId, owner, destination)
StakePoolGetKey(programId, owner, destination) ==
  FindProgramAddress(<<<<1>>, ToBuffer(owner), ToBuffer(destination)>>, programId)

\* StakeAccount.getKey(programId, owner, stakePool)
StakeAccountGetKey(programId, owner, stakePool) ==
  FindProgramAddress(<<<<2>>, ToBuffer(owner), ToBuffer(stakePool)>>, programId)

\* BondAccount.getKey(programId, owner, totalAmountSold)
BondAccountGetKey(programId, owner, totalAmountSold) ==
  FindProgramAddress(<<<<3>>, ToBuffer(owner), BytesOf(totalAmountSold)>>, programId)

\* Token.getAssociatedTokenAddress(associatedProgramId, programId, mint, owner)
GetAssociatedTokenAddress(associatedProgramId, programId, mint, owner) ==
  FindProgramAddress(
    <<ToBuffer(owner), ToBuffer(programId), ToBuffer(mint)>>,
    associatedProgramId)[1]

\* The address of the central state of the ACCESS program.
CentralKey == CentralStateGetKey(ACCESS_PROGRAM_ID)[1]

(***************************************************************************)
(* Account discriminators: the byte the node compares with the first byte  *)
(* of an account when given the pattern the locators pass.                 *)
(***************************************************************************)
PatternByte(pattern) == Base58Decode(pattern)[1]

TagStakePool           == PatternByte(<<"2">>)
TagInactiveStakePool   == PatternByte(<<"3">>)
TagStakeAccount        == PatternByte(<<"4">>)
TagInactiveBondAccount == PatternByte(<<"5">>)
TagBondAccount         == PatternByte(<<"6">>)

(***************************************************************************)
(* Remote state: the accounts of the cluster.  This layer only reads it.   *)
(***************************************************************************)
VARIABLES
  accounts,   \* address -> decoded account (or Missing)
  calls       \* call slot -> the call in flight in it (or Idle)

vars == <<accounts, calls>>

Calls == 1..NumCalls

Missing == [kind |-> "none"]

CentralStateAccount(authority, tokenMint) ==
  [kind |-> "CentralState", tag |-> TagBondAccount + 1,
   authority |-> authority, tokenMint |-> tokenMint]

StakePoolAccount(tag, owner, vault) ==
  [kind |-> "StakePool", tag |-> tag, owner |-> owner, vault |-> vault]

StakeAccountAccount(owner, stakePool) ==
  [kind |-> "StakeAccount", tag |-> TagStakeAccount,
   owner |-> owner, stakePool |-> stakePool]

BondAccountAccount(tag, owner, stakePool, sellerTokenAccount) ==
  [kind |-> "BondAccount", tag |-> tag, owner |-> owner,
   stakePool |-> stakePool, sellerTokenAccount |-> sellerTokenAccount]

AcctKeys ==
  {CentralKey, Pool1, Pool2, StakeAcc1, StakeAcc2, Bond1, Bond2, Bond3}

\* A cluster on which every account the callers name exists.
FullCluster ==
  (CentralKey :> CentralStateAccount(Carol, Mint1)) @@
  (Pool1 :> StakePoolAccount(TagStakePool, Alice, Vault1)) @@
  (Pool2 :> StakePoolAccount(TagInactiveStakePool, Bob, Vault2)) @@
  (StakeAcc1 :> StakeAccountAccount(Bob, Pool1)) @@
  (StakeAcc2 :> StakeAccountAccount(Alice, Pool2)) @@
  (Bond1 :> BondAccountAccount(TagBondAccount, Alice, Pool1, TokenAcc1)) @@
  (Bond2 :> BondAccountAccount(TagInactiveBondAccount, Alice, Pool1, TokenAcc2)) @@
  (Bond3 :> BondAccountAccount(TagBondAccount, Bob, Pool2, TokenAcc1))

\* The program has not been initialised: no central state.
NoCentralCluster == [FullCluster EXCEPT ![CentralKey] = Missing]

\* Accounts closed or of another type than the caller expects: Pool1 is
\* closed (StakeAcc1 still points to it), StakeAcc2 is closed, and the
\* address Bond1 holds a stake account.
SparseCluster ==
  [FullCluster EXCEPT ![Pool1] = Missing,
                      ![StakeAcc2] = Missing,
                      ![Bond1] = StakeAccountAccount(Carol, Pool2)]

Clusters == {FullCluster, NoCentralCluster, SparseCluster}

\* connection.getAccountInfo(key)
GetAccountInfo(accts, key) ==
  IF key \in DOMAIN accts THEN accts[key] ELSE Missing

\* <Type>.retrieve(connection, key): fetch the account and decode it as
\* <Type>.  Fails when the account does not exist or does not decode.
Retrieve(accts, kind, key) ==
  LET info == GetAccountInfo(accts, key)
  IN  IF info = Missing
        THEN [ok |-> FALSE,
              error |-> [name |-> "AccountNotFound", kind |-> kind, key |-> key]]
      ELSE IF info.kind # kind
        THEN [ok |-> FALSE,
              error |-> [name |-> "DecodeError", kind |-> kind, key |-> key]]
      ELSE [ok |-> TRUE, value |-> info]

\* Offset of the owner field in a serialized stake pool:
\* tag, nonce, current day index, padding, minimum stake amount, total
\* staked, last crank time.
PoolOwnerOffset == 1 + 1 + 2 + 4 + 8 + 8 + 8

\* The bytes of an account as stored on chain, up to the owner field.
Serialize(acct) ==
  IF acct.kind = "StakePool"
    THEN <<acct.tag>> \o Zeros(PoolOwnerOffset - 1) \o ToBuffer(acct.owner)
  ELSE IF acct.kind \in {"StakeAccount", "BondAccount"}
    THEN <<acct.tag>> \o ToBuffer(acct.owner)
  ELSE IF acct.kind = "CentralState"
    THEN <<acct.tag>>
  ELSE <<>>

\* The node's memcmp filter: the account's bytes at `offset` equal the
\* base58-decoded pattern.
Memcmp(data, filter) ==
  LET pat == Base58Decode(filter.memcmp.bytes)
      off == filter.memcmp.offset
  IN  /\ off + Len(pat) <= Len(data)
      /\ \A i \in 1..Len(pat) : data[off + i] = pat[i]

\* connection.getProgramAccounts(programId, {filters}): the addresses of
\* the program's accounts that pass every filter.
GetProgramAccounts(accts, programId, filters) ==
  IF programId # ACCESS_PROGRAM_ID THEN {}
  ELSE {k \in DOMAIN accts :
          /\ accts[k] # Missing
          /\ \A i \in 1..Len(filters) : Memcmp(Serialize(accts[k]), filters[i])}

(***************************************************************************)
(* Calls.  A call record holds what the async function's activation holds: *)
(* its arguments, the await it is suspended at, its local constants, and   *)
(* the settled value of its promise.  `pending` is the remote request in   *)
(* flight and `reads` the requests the connection has answered for it.     *)
(***************************************************************************)
LocalNames == {"centralState", "stakePool", "stake", "bond"}
Unset == [kind |-> "unset"]
NoLocals == [n \in LocalNames |-> Unset]
NoRequest == [rpc |-> "none"]

Idle ==
  [op |-> "none", args |-> [none |-> TRUE], pc |-> "idle", locals |-> NoLocals,
   pending |-> NoRequest, reads |-> <<>>, ret |-> [type |-> "none"]]

\* The activation of `op` on arguments a, before its first statement.
Fresh(op, a) ==
  [op |-> op, args |-> a, pc |-> "start", locals |-> NoLocals,
   pending |-> NoRequest, reads |-> <<>>, ret |-> [type |-> "pending"]]

Enter(cs, c, op, a) == [cs EXCEPT ![c] = Fresh(op, a)]

AccountRequest(kind, key) == [rpc |-> "getAccountInfo", kind |-> kind, key |-> key]

ProgramAccountsRequest(programId, filters) ==
  [rpc |-> "getProgramAccounts", programId |-> programId, filters |-> filters]

\* `await <Type>.retrieve(connection, key)`: the request is sent and the
\* call is suspended at label pc.
Await(cs, c, kind, key, pc) ==
  [cs EXCEPT ![c].pending = AccountRequest(kind, key), ![c].pc = pc]

\* `await connection.getProgramAccounts(programId, {filters})`
AwaitProgramAccounts(cs, c, programId, filters, pc) ==
  [cs EXCEPT ![c].pending = ProgramAccountsRequest(programId, filters),
             ![c].pc = pc]

\* The answer to the request call `me` is suspended on.
Response(me, accts) ==
  IF me.pending.rpc = "getAccountInfo"
    THEN Retrieve(accts, me.pending.kind, me.pending.key)
  ELSE [ok |-> TRUE,
        value |-> GetProgramAccounts(accts, me.pending.programId,
                                     me.pending.filters)]

\* The call is resumed with answer r.
Received(cs, c, r) ==
  [cs EXCEPT ![c].reads = Append(@, [request |-> cs[c].pending, response |-> r]),
             ![c].pending = NoRequest]

\* The same, when the function's locals are module-level variables: every
\* activation sees the value last assigned.
StoreLocalShared(cs, c, name, v) ==
  [d \in DOMAIN cs |->
     IF cs[d].pc \in {"idle", "done"} /\ d # c THEN cs[d]
     ELSE [cs[d] EXCEPT !.locals[name] = v]]

\* `const name = ...`: a constant of this activation.
StoreLocal(cs, c, name, v) == [cs EXCEPT ![c].locals[name] = v]

Instruction(ix) == [type |-> "instruction", ix |-> ix]
InstructionList(ixs) == [type |-> "instructions", ixs |-> ixs]
Undefined == [type |-> "undefined"]
AccountList(keys) == [type |-> "accounts", keys |-> keys]
Rejected(e) == [type |-> "error", error |-> e]

\* `return value` (the promise is fulfilled).
Return(cs, c, value) == [cs EXCEPT ![c].pc = "done", ![c].ret = value]

\* An exception leaves the function (the promise is rejected).
Throw(cs, c, e) == [cs EXCEPT ![c].pc = "done", ![c].ret = Rejected(e)]

\* new BN(n), for a JavaScript integer.
BN(n) == n

\* new <name>Instruction(fields).getInstruction(programId, ...keys): the
\* account references in the order given, and the tagged payload.
GetInstruction(name, fields, programId, keys) ==
  [programId |-> programId, keys |-> keys, data |-> [instruction |-> name, fields |-> fields]]

\* Token.createAssociatedTokenAccountInstruction(associatedProgramId,
\*   programId, mint, associatedAccount, owner, payer)
CreateAssociatedTokenAccountInstruction(associatedProgramId, programId, mint, associatedAccount, owner, payer) ==
  [programId |-> associatedProgramId,
   keys |-> <<payer, associatedAccount, owner, mint, SystemProgramId,
              programId, SYSVAR_RENT_PUBKEY>>,
   data |-> [instruction |-> "createAssociatedTokenAccount", fields |-> [none |-> TRUE]]]

(***************************************************************************)
(* The instruction builders of bindings.ts.  <name>Body(cs, c, accts) is   *)
(* what call c does when it is entered (pc = "start") or resumed (pc = the *)
(* line of the await it is suspended at), up to its next await or its end. *)
(* `await <Type>.getKey(programId, ...)` derives an address without any     *)
(* remote request; it is part of the segment it stands in.                 *)
(***************************************************************************)
changeInflationArgs ==
  {[newInflation |-> 500, programId |-> ACCESS_PROGRAM_ID]}

changeInflationBody(cs, c, accts) ==
  LET a == cs[c].args
      centralKey == CentralStateGetKey(a.programId)[1]
  IN  IF cs[c].pc = "start" THEN Await(cs, c, "CentralState", centralKey, "L43")
      ELSE LET r == Response(cs[c], accts)
               cs1 == Received(cs, c, r)
           IN  IF ~r.ok THEN Throw(cs1, c, r.error)
               ELSE LET cs2 == StoreLocal(cs1, c, "centralState", r.value)
                        centralState == cs2[c].locals.centralState
                    IN  Return(cs2, c, Instruction(GetInstruction(
                          "changeInflation",
                          [dailyInflation |-> BN(a.newInflation)],
                          a.programId, <<centralKey, centralState.authority>>)))

changePoolMinimumArgs ==
  {[stakePoolKey |-> Pool1, newMinimum |-> 10, programId |-> ACCESS_PROGRAM_ID]}

changePoolMinimumBody(cs, c, accts) ==
  LET a == cs[c].args
  IN  IF cs[c].pc = "start" THEN Await(cs, c, "StakePool", a.stakePoolKey, "L66")
      ELSE LET r == Response(cs[c], accts)
               cs1 == Received(cs, c, r)
           IN  IF ~r.ok THEN Throw(cs1, c, r.error)
               ELSE LET cs2 == StoreLocal(cs1, c, "stakePool", r.value)
                        stakePool == cs2[c].locals.stakePool
                    IN  Return(cs2, c, Instruction(GetInstruction(
                          "changePoolMinimum",
                          [newMinimum |-> BN(a.newMinimum)],
                          a.programId, <<a.stakePoolKey, stakePool.owner>>)))

claimBondRewardsArgs ==
  {[bondAccount |-> Bond1, rewardsDestination |-> TokenAcc1,
    programId |-> ACCESS_PROGRAM_ID]}

\* The same, with the failure of the central-state read swallowed by a
\* catch block that falls back to a default.
claimBondRewardsSwallow(cs, c, accts) ==
  LET a == cs[c].args
      centralKey == CentralStateGetKey(a.programId)[1]
  IN  IF cs[c].pc = "start" THEN Await(cs, c, "CentralState", centralKey, "L90")
      ELSE LET r == Response(cs[c], accts)
               cs1 == Received(cs, c, r)
           IN  IF cs[c].pc = "L90"
                 THEN LET v == IF r.ok THEN r.value
                               ELSE CentralStateAccount(SystemProgramId, SystemProgramId)
                      IN  Await(StoreLocal(cs1, c, "centralState", v), c,
                                "BondAccount", a.bondAccount, "L92")
               ELSE IF ~r.ok THEN Throw(cs1, c, r.error)
               ELSE LET cs2 == StoreLocal(cs1, c, "bond", r.value)
                        centralState == cs2[c].locals.centralState
                        bond == cs2[c].locals.bond
                    IN  Return(cs2, c, Instruction(GetInstruction(
                          "claimBondRewards", [none |-> TRUE], a.programId,
                          <<bond.stakePool, a.bondAccount, bond.owner,
                            a.rewardsDestination, centralKey,
                            centralState.tokenMint, TOKEN_PROGRAM_ID>>)))

claimBondRewardsBody(cs, c, accts) ==
  LET a == cs[c].args
      centralKey == CentralStateGetKey(a.programId)[1]
  IN  IF cs[c].pc = "start" THEN Await(cs, c, "CentralState", centralKey, "L90")
      ELSE LET r == Response(cs[c], accts)
               cs1 == Received(cs, c, r)
           IN  IF ~r.ok THEN Throw(cs1, c, r.error)
               ELSE IF cs[c].pc = "L90"
                 THEN Await(StoreLocal(cs1, c, "centralState", r.value), c,
                            "BondAccount", a.bondAccount, "L92")
               ELSE LET cs2 == StoreLocal(cs1, c, "bond", r.value)
                        centralState == cs2[c].locals.centralState
                        bond == cs2[c].locals.bond
                    IN  Return(cs2, c, Instruction(GetInstruction(
                          "claimBondRewards", [none |-> TRUE], a.programId,
                          <<bond.stakePool, a.bondAccount, bond.owner,
                            a.rewardsDestination, centralKey,
                            centralState.tokenMint, TOKEN_PROGRAM_ID>>)))

claimBondArgs ==
  {[bondAccount |-> Bond1, buyer |-> Alice, quoteTokenSource |-> TokenAcc2,
    programId |-> ACCESS_PROGRAM_ID]}

claimBondBody(cs, c, accts) ==
  LET a == cs[c].args
  IN  IF cs[c].pc = "start" THEN Await(cs, c, "BondAccount", a.bondAccount, "L124")
      ELSE LET r == Response(cs[c], accts)
               cs1 == Received(cs, c, r)
           IN  IF ~r.ok THEN Throw(cs1, c, r.error)
               ELSE LET cs2 == StoreLocal(cs1, c, "bond", r.value)
                        bond == cs2[c].locals.bond
                    IN  Return(cs2, c, Instruction(GetInstruction(
                          "claimBond", [none |-> TRUE], a.programId,
                          <<a.bondAccount, a.buyer, a.quoteTokenSource,
                            bond.sellerTokenAccount, TOKEN_PROGRAM_ID>>)))

claimPoolRewardsArgs ==
  {[stakePoolAccount |-> Pool1, rewardsDestination |-> TokenAcc2,
    programId |-> ACCESS_PROGRAM_ID]}

\* The instruction is built and bound to `ix`, and the function ends
\* without a return statement.
claimPoolRewardsBody(cs, c, accts) ==
  LET a == cs[c].args
      centralKey == CentralStateGetKey(a.programId)[1]
  IN  IF cs[c].pc = "start" THEN Await(cs, c, "CentralState", centralKey, "L152")
      ELSE LET r == Response(cs[c], accts)
               cs1 == Received(cs, c, r)
           IN  IF ~r.ok THEN Throw(cs1, c, r.error)
               ELSE IF cs[c].pc = "L152"
                 THEN Await(StoreLocal(cs1, c, "centralState", r.value), c,
                            "StakePool", a.stakePoolAccount, "L153")
               ELSE LET cs2 == StoreLocal(cs1, c, "stakePool", r.value)
                        centralState == cs2[c].locals.centralState
                        stakePool == cs2[c].locals.stakePool
                        ix == GetInstruction(
                          "claimPoolRewards", [none |-> TRUE], a.programId,
                          <<a.stakePoolAccount, stakePool.owner,
                            a.rewardsDestination, centralKey,
                            centralState.tokenMint, TOKEN_PROGRAM_ID>>)
                    IN  Return(cs2, c, Undefined)

claimRewardsArgs ==
  {[stakeAccount |-> StakeAcc2, rewardsDestination |-> TokenAcc1,
    programId |-> ACCESS_PROGRAM_ID]}

claimRewardsBody(cs, c, accts) ==
  LET a == cs[c].args
      centralKey == CentralStateGetKey(a.programId)[1]
  IN  IF cs[c].pc = "start" THEN Await(cs, c, "StakeAccount", a.stakeAccount, "L180")
      ELSE LET r == Response(cs[c], accts)
               cs1 == Received(cs, c, r)
           IN  IF ~r.ok THEN Throw(cs1, c, r.error)
               ELSE IF cs[c].pc = "L180"
                 THEN Await(StoreLocal(cs1, c, "stake", r.value), c,
                            "CentralState", centralKey, "L182")
               ELSE LET cs2 == StoreLocal(cs1, c, "centralState", r.value)
                        centralState == cs2[c].locals.centralState
                        stake == cs2[c].locals.stake
                    IN  Return(cs2, c, Instruction(GetInstruction(
                          "claimRewards", [none |-> TRUE], a.programId,
                          <<stake.stakePool, a.stakeAccount, stake.owner,
                            a.rewardsDestination, centralKey,
                            centralState.tokenMint, TOKEN_PROGRAM_ID>>)))

closeStakeAccountArgs ==
  {[stakeAccount |-> StakeAcc2, programId |-> ACCESS_PROGRAM_ID]}

closeStakeAccountBody(cs, c, accts) ==
  LET a == cs[c].args
  IN  IF cs[c].pc = "start" THEN Await(cs, c, "StakeAccount", a.stakeAccount, "L210")
      ELSE LET r == Response(cs[c], accts)
               cs1 == Received(cs, c, r)
           IN  IF ~r.ok THEN Throw(cs1, c, r.error)
               ELSE LET cs2 == StoreLocal(cs1, c, "stake", r.value)
                        stake == cs2[c].locals.stake
                    IN  Return(cs2, c, Instruction(GetInstruction(
                          "closeStakeAccount", [none |-> TRUE], a.programId,
                          <<a.stakeAccount, stake.owner>>)))

closeStakePoolArgs ==
  {[stakePoolAccount |-> Pool1, programId |-> ACCESS_PROGRAM_ID]}

closeStakePoolBody(cs, c, accts) ==
  LET a == cs[c].args
  IN  IF cs[c].pc = "start" THEN Await(cs, c, "StakePool", a.stakePoolAccount, "L233")
      ELSE LET r == Response(cs[c], accts)
               cs1 == Received(cs, c, r)
           IN  IF ~r.ok THEN Throw(cs1, c, r.error)
               ELSE LET cs2 == StoreLocal(cs1, c, "stakePool", r.value)
                        stakePool == cs2[c].locals.stakePool
                    IN  Return(cs2, c, Instruction(GetInstruction(
                          "closeStakePool", [none |-> TRUE], a.programId,
                          <<a.stakePoolAccount, stakePool.owner>>)))

crankArgs ==
  {[stakePoolAccount |-> Pool1, programId |-> ACCESS_PROGRAM_ID]}

crankBody(cs, c, accts) ==
  LET a == cs[c].args
      centralKey == CentralStateGetKey(a.programId)[1]
  IN  Return(cs, c, Instruction(GetInstruction(
        "crank", [none |-> TRUE], a.programId,
        <<a.stakePoolAccount, centralKey>>)))

createBondArgs ==
  {[seller |-> Carol, buyer |-> Alice, totalAmountSold |-> 1000,
    totalQuoteAmount |-> 250, quoteMint |-> Mint1,
    sellerTokenAccount |-> TokenAcc1, unlockStartDate |-> 40, unlockPeriod |-> 7,
    unlockAmount |-> 100, lastUnlockTime |-> 110, stakePool |-> Pool1,
    sellerIndex |-> 2, programId |-> ACCESS_PROGRAM_ID]}

createBondBody(cs, c, accts) ==
  LET a == cs[c].args
      bondAccount == BondAccountGetKey(a.programId, a.buyer, a.totalAmountSold)[1]
  IN  Return(cs, c, Instruction(GetInstruction(
        "createBond",
        [buyer |-> ToBuffer(a.buyer),
         totalAmountSold |-> BN(a.totalAmountSold),
         totalQuoteAmount |-> BN(a.totalQuoteAmount),
         quoteMint |-> ToBuffer(a.quoteMint),
         sellerTokenAccount |-> ToBuffer(a.sellerTokenAccount),
         unlockStartDate |-> BN(a.unlockStartDate),
         unlockPeriod |-> BN(a.unlockPeriod),
         unlockAmount |-> BN(a.unlockAmount),
         lastUnlockTime |-> BN(a.lastUnlockTime),
         sellerIndex |-> BN(a.sellerIndex)],
        a.programId,
        <<a.seller, bondAccount, a.stakePool, SystemProgramId, a.seller>>)))

createCentralStateArgs ==
  {[dailyInflation |-> 500, authority |-> Carol, feePayer |-> Bob,
    mint |-> Mint1, programId |-> ACCESS_PROGRAM_ID]}

createCentralStateBody(cs, c, accts) ==
  LET a == cs[c].args
      centralKey == CentralStateGetKey(a.programId)[1]
  IN  Return(cs, c, Instruction(GetInstruction(
        "createCentralState",
        [dailyInflation |-> BN(a.dailyInflation),
         authority |-> ToBuffer(a.authority)],
        a.programId,
        <<centralKey, SystemProgramId, a.feePayer, a.mint>>)))

createStakeAccountArgs ==
  {[stakePool |-> Pool1, owner |-> Bob, feePayer |-> Bob,
    programId |-> ACCESS_PROGRAM_ID]}

createStakeAccountBody(cs, c, accts) ==
  LET a == cs[c].args
      derived == StakeAccountGetKey(a.programId, a.owner, a.stakePool)
      stakeAccount == derived[1]
      nonce == derived[2]
  IN  Return(cs, c, Instruction(GetInstruction(
        "createStakeAccount",
        [nonce |-> nonce, owner |-> ToBuffer(a.owner)],
        a.programId,
        <<stakeAccount, SystemProgramId, a.stakePool, a.feePayer>>)))

createStakePoolArgs ==
  {[name |-> "pool", owner |-> od[1], destination |-> od[2],
    minimumStakeAmount |-> 10, feePayer |-> Carol,
    programId |-> ACCESS_PROGRAM_ID] :
     od \in {<<Alice, TokenAcc1>>, <<Bob, TokenAcc2>>}}

\* The same, with the vault derived for the pool's owner instead of for
\* the pool.
createStakePoolOwnerVault(cs, c, accts) ==
  LET a == cs[c].args
      derived == StakePoolGetKey(a.programId, a.owner, a.destination)
      stakePool == derived[1]
      nonce == derived[2]
      centralKey == CentralStateGetKey(a.programId)[1]
  IN  IF cs[c].pc = "start" THEN Await(cs, c, "CentralState", centralKey, "L398")
      ELSE LET r == Response(cs[c], accts)
               cs1 == Received(cs, c, r)
           IN  IF ~r.ok THEN Throw(cs1, c, r.error)
               ELSE LET cs2 == StoreLocal(cs1, c, "centralState", r.value)
                        centralState == cs2[c].locals.centralState
                        vault == GetAssociatedTokenAddress(
                          ASSOCIATED_TOKEN_PROGRAM_ID, TOKEN_PROGRAM_ID,
                          centralState.tokenMint, a.owner)
                        createVaultIx == CreateAssociatedTokenAccountInstruction(
                          ASSOCIATED_TOKEN_PROGRAM_ID, TOKEN_PROGRAM_ID,
                          centralState.tokenMint, vault, stakePool, a.feePayer)
                        ix == GetInstruction(
                          "createStakePool",
                          [nonce |-> nonce, name |-> a.name,
                           owner |-> ToBuffer(a.owner),
                           minimumStakeAmount |-> BN(a.minimumStakeAmount),
                           destination |-> ToBuffer(a.destination)],
                          a.programId,
                          <<stakePool, SystemProgramId, a.feePayer, vault>>)
                    IN  Return(cs2, c, InstructionList(<<createVaultIx, ix>>))

createStakePoolBody(cs, c, accts) ==
  LET a == cs[c].args
      derived == StakePoolGetKey(a.programId, a.owner, a.destination)
      stakePool == derived[1]
      nonce == derived[2]
      centralKey == CentralStateGetKey(a.programId)[1]
  IN  IF cs[c].pc = "start" THEN Await(cs, c, "CentralState", centralKey, "L398")
      ELSE LET r == Response(cs[c], accts)
               cs1 == Received(cs, c, r)
           IN  IF ~r.ok THEN Throw(cs1, c, r.error)
               ELSE LET cs2 == StoreLocal(cs1, c, "centralState", r.value)
                        centralState == cs2[c].locals.centralState
                        vault == GetAssociatedTokenAddress(
                          ASSOCIATED_TOKEN_PROGRAM_ID, TOKEN_PROGRAM_ID,
                          centralState.tokenMint, stakePool)
                        createVaultIx == CreateAssociatedTokenAccountInstruction(
                          ASSOCIATED_TOKEN_PROGRAM_ID, TOKEN_PROGRAM_ID,
                          centralState.tokenMint, vault, stakePool, a.feePayer)
                        ix == GetInstruction(
                          "createStakePool",
                          [nonce |-> nonce, name |-> a.name,
                           owner |-> ToBuffer(a.owner),
                           minimumStakeAmount |-> BN(a.minimumStakeAmount),
                           destination |-> ToBuffer(a.destination)],
                          a.programId,
                          <<stakePool, SystemProgramId, a.feePayer, vault>>)
                    IN  Return(cs2, c, InstructionList(<<createVaultIx, ix>>))

signBondArgs ==
  {[sellerIndex |-> 2, seller |-> Carol, bondAccount |-> Bond2,
    programId |-> ACCESS_PROGRAM_ID]}

signBondBody(cs, c, accts) ==
  LET a == cs[c].args
  IN  Return(cs, c, Instruction(GetInstruction(
        "signBond", [sellerIndex |-> BN(a.sellerIndex)], a.programId,
        <<a.seller, a.bondAccount>>)))

stakeArgs ==
  {[stakeAccount |-> k, sourceToken |-> TokenAcc1, amount |-> 25,
    programId |-> ACCESS_PROGRAM_ID] : k \in {StakeAcc1, StakeAcc2}}

\* The same, with the pool account of the instruction taken from the stake
\* account as it is on chain when the instruction is built, instead of
\* from the stake account read at line 453.
stakeRefetch(cs, c, accts) ==
  LET a == cs[c].args
  IN  IF cs[c].pc = "start" THEN Await(cs, c, "StakeAccount", a.stakeAccount, "L453")
      ELSE LET r == Response(cs[c], accts)
               cs1 == Received(cs, c, r)
           IN  IF ~r.ok THEN Throw(cs1, c, r.error)
               ELSE IF cs[c].pc = "L453"
                 THEN LET cs2 == StoreLocal(cs1, c, "stake", r.value)
                      IN  Await(cs2, c, "StakePool",
                                cs2[c].locals.stake.stakePool, "L454")
               ELSE LET cs2 == StoreLocal(cs1, c, "stakePool", r.value)
                        stake == cs2[c].locals.stake
                        stakePool == cs2[c].locals.stakePool
                        now == Retrieve(accts, "StakeAccount", a.stakeAccount)
                    IN  Return(cs2, c, Instruction(GetInstruction(
                          "stake", [amount |-> BN(a.amount)], a.programId,
                          <<a.stakeAccount,
                            IF now.ok THEN now.value.stakePool ELSE stake.stakePool,
                            stake.owner, a.sourceToken,
                            TOKEN_PROGRAM_ID, stakePool.vault>>)))

stakeBody(cs, c, accts) ==
  LET a == cs[c].args
  IN  IF cs[c].pc = "start" THEN Await(cs, c, "StakeAccount", a.stakeAccount, "L453")
      ELSE LET r == Response(cs[c], accts)
               cs1 == Received(cs, c, r)
           IN  IF ~r.ok THEN Throw(cs1, c, r.error)
               ELSE IF cs[c].pc = "L453"
                 THEN LET cs2 == StoreLocal(cs1, c, "stake", r.value)
                      IN  Await(cs2, c, "StakePool",
                                cs2[c].locals.stake.stakePool, "L454")
               ELSE LET cs2 == StoreLocal(cs1, c, "stakePool", r.value)
                        stake == cs2[c].locals.stake
                        stakePool == cs2[c].locals.stakePool
                    IN  Return(cs2, c, Instruction(GetInstruction(
                          "stake", [amount |-> BN(a.amount)], a.programId,
                          <<a.stakeAccount, stake.stakePool, stake.owner,
                            a.sourceToken, TOKEN_PROGRAM_ID, stakePool.vault>>)))

unlockBondTokensArgs ==
  {[bondAccount |-> Bond1, destinationToken |-> TokenAcc2,
    programId |-> ACCESS_PROGRAM_ID]}

unlockBondTokensBody(cs, c, accts) ==
  LET a == cs[c].args
      centralKey == CentralStateGetKey(a.programId)[1]
  IN  IF cs[c].pc = "start" THEN Await(cs, c, "CentralState", centralKey, "L476")
      ELSE LET r == Response(cs[c], accts)
               cs1 == Received(cs, c, r)
           IN  IF ~r.ok THEN Throw(cs1, c, r.error)
               ELSE IF cs[c].pc = "L476"
                 THEN Await(StoreLocal(cs1, c, "centralState", r.value), c,
                            "BondAccount", a.bondAccount, "L477")
               ELSE LET cs2 == StoreLocal(cs1, c, "bond", r.value)
                        centralState == cs2[c].locals.centralState
                        bond == cs2[c].locals.bond
                    IN  Return(cs2, c, Instruction(GetInstruction(
                          "unlockBondTokens", [none |-> TRUE], a.programId,
                          <<a.bondAccount, bond.owner, centralState.tokenMint,
                            a.destinationToken, centralKey, TOKEN_PROGRAM_ID>>)))

unstakeArgs ==
  {[stakeAccount |-> k, destinationToken |-> TokenAcc2, amount |-> 25,
    programId |-> ACCESS_PROGRAM_ID] : k \in {StakeAcc1, StakeAcc2}}

unstakeBody(cs, c, accts) ==
  LET a == cs[c].args
  IN  IF cs[c].pc = "start" THEN Await(cs, c, "StakeAccount", a.stakeAccount, "L499")
      ELSE LET r == Response(cs[c], accts)
               cs1 == Received(cs, c, r)
           IN  IF ~r.ok THEN Throw(cs1, c, r.error)
               ELSE IF cs[c].pc = "L499"
                 THEN LET cs2 == StoreLocal(cs1, c, "stake", r.value)
                      IN  Await(cs2, c, "StakePool",
                                cs2[c].locals.stake.stakePool, "L500")
               ELSE LET cs2 == StoreLocal(cs1, c, "stakePool", r.value)
                        stake == cs2[c].locals.stake
                        stakePool == cs2[c].locals.stakePool
                    IN  Return(cs2, c, Instruction(GetInstruction(
                          "unstake", [amount |-> BN(a.amount)], a.programId,
                          <<a.stakeAccount, stake.stakePool, stake.owner,
                            a.destinationToken, TOKEN_PROGRAM_ID,
                            stakePool.vault>>)))

adminMintArgs ==
  {[amount |-> 77, destinationToken |-> TokenAcc1,
    programId |-> ACCESS_PROGRAM_ID]}

adminMintBody(cs, c, accts) ==
  LET a == cs[c].args
      centralKey == CentralStateGetKey(a.programId)[1]
  IN  IF cs[c].pc = "start" THEN Await(cs, c, "CentralState", centralKey, "L524")
      ELSE LET r == Response(cs[c], accts)
               cs1 == Received(cs, c, r)
           IN  IF ~r.ok THEN Throw(cs1, c, r.error)
               ELSE LET cs2 == StoreLocal(cs1, c, "centralState", r.value)
                        centralState == cs2[c].locals.centralState
                    IN  Return(cs2, c, Instruction(GetInstruction(
                          "adminMint", [amount |-> BN(a.amount)], a.programId,
                          <<centralState.authority, centralState.tokenMint,
                            a.destinationToken, centralKey, TOKEN_PROGRAM_ID>>)))

(***************************************************************************)
(* The account locators.  Each builds its filters, sends one               *)
(* getProgramAccounts request and returns the answer.                      *)
(***************************************************************************)
MemcmpFilter(offset, bytes) == [memcmp |-> [offset |-> offset, bytes |-> bytes]]

\* Owners looked for: the wallets, the all-zero key and the all-ones key.
OwnerArgs == {[owner |-> o] : o \in Wallets \cup {SystemProgramId, KeySpace - 1}}
NoArgs == {[none |-> TRUE]}

\* What every locator does with its filters (lines 28-30, 57-59, ...).
Locate(cs, c, accts, filters, pc) ==
  IF cs[c].pc = "start"
    THEN AwaitProgramAccounts(cs, c, ACCESS_PROGRAM_ID, filters, pc)
  ELSE LET r == Response(cs[c], accts)
       IN  Return(Received(cs, c, r), c, AccountList(r.value))

\* The same, with the pattern spelling the discriminator as a decimal
\* digit would have to be spelled for a base58 decoder.
getStakeAccountsShifted(cs, c, accts) ==
  LET filters == <<MemcmpFilter(0, <<"5">>),
                     MemcmpFilter(1, ToBase58(cs[c].args.owner))>>
  IN  Locate(cs, c, accts, filters, "P28")

getStakeAccountsBody(cs, c, accts) ==
  LET filters == <<MemcmpFilter(0, <<"4">>),
                     MemcmpFilter(1, ToBase58(cs[c].args.owner))>>
  IN  Locate(cs, c, accts, filters, "P28")

\* The same, with the owner looked for right after the discriminator, as
\* in the other two owner-scoped locators.
getStakePoolsOffsetOne(cs, c, accts) ==
  LET filters == <<MemcmpFilter(0, <<"2">>),
                     MemcmpFilter(1, ToBase58(cs[c].args.owner))>>
  IN  Locate(cs, c, accts, filters, "P57")

getStakePoolsBody(cs, c, accts) ==
  LET filters == <<MemcmpFilter(0, <<"2">>),
                     MemcmpFilter(1 + 1 + 2 + 4 + 8 + 8 + 8, ToBase58(cs[c].args.owner))>>
  IN  Locate(cs, c, accts, filters, "P57")

getBondAccountsBody(cs, c, accts) ==
  LET filters == <<MemcmpFilter(0, <<"6">>),
                     MemcmpFilter(1, ToBase58(cs[c].args.owner))>>
  IN  Locate(cs, c, accts, filters, "P86")

getAllStakePoolsBody(cs, c, accts) ==
  LET filters == <<MemcmpFilter(0, <<"2">>)>>
  IN  Locate(cs, c, accts, filters, "P105")

getAllInactiveStakePoolsBody(cs, c, accts) ==
  LET filters == <<MemcmpFilter(0, <<"3">>)>>
  IN  Locate(cs, c, accts, filters, "P124")

getAllInactiveBondsBody(cs, c, accts) ==
  LET filters == <<MemcmpFilter(0, <<"5">>)>>
  IN  Locate(cs, c, accts, filters, "P143")

getAllActiveBondsBody(cs, c, accts) ==
  LET filters == <<MemcmpFilter(0, <<"6">>)>>
  IN  Locate(cs, c, accts, filters, "P162")

(***************************************************************************)
(* The state machine.                                                      *)
(***************************************************************************)
Builders ==
  {"changeInflation", "changePoolMinimum", "claimBondRewards", "claimBond",
   "claimPoolRewards", "claimRewards", "closeStakeAccount", "closeStakePool",
   "crank", "createBond", "createCentralState", "createStakeAccount",
   "createStakePool", "signBond", "stake", "unlockBondTokens",
   "unstake", "adminMint"}

Locators ==
  {"getStakeAccounts", "getStakePools", "getBondAccounts",
   "getAllStakePools", "getAllInactiveStakePools", "getAllInactiveBonds",
   "getAllActiveBonds"}

\* What call c of operation op does next.
BodyOf(op, cs, c, accts) ==
  CASE op = "changeInflation" -> changeInflationBody(cs, c, accts)
    [] op = "changePoolMinimum" -> changePoolMinimumBody(cs, c, accts)
    [] op = "claimBondRewards" -> claimBondRewardsBody(cs, c, accts)
    [] op = "claimBond" -> claimBondBody(cs, c, accts)
    [] op = "claimPoolRewards" -> claimPoolRewardsBody(cs, c, accts)
    [] op = "claimRewards" -> claimRewardsBody(cs, c, accts)
    [] op = "closeStakeAccount" -> closeStakeAccountBody(cs, c, accts)
    [] op = "closeStakePool" -> closeStakePoolBody(cs, c, accts)
    [] op = "crank" -> crankBody(cs, c, accts)
    [] op = "createBond" -> createBondBody(cs, c, accts)
    [] op = "createCentralState" -> createCentralStateBody(cs, c, accts)
    [] op = "createStakeAccount" -> createStakeAccountBody(cs, c, accts)
    [] op = "createStakePool" -> createStakePoolBody(cs, c, accts)
    [] op = "signBond" -> signBondBody(cs, c, accts)
    [] op = "stake" -> stakeBody(cs, c, accts)
    [] op = "unlockBondTokens" -> unlockBondTokensBody(cs, c, accts)
    [] op = "unstake" -> unstakeBody(cs, c, accts)
    [] op = "adminMint" -> adminMintBody(cs, c, accts)
    [] op = "getStakeAccounts" -> getStakeAccountsBody(cs, c, accts)
    [] op = "getStakePools" -> getStakePoolsBody(cs, c, accts)
    [] op = "getBondAccounts" -> getBondAccountsBody(cs, c, accts)
    [] op = "getAllStakePools" -> getAllStakePoolsBody(cs, c, accts)
    [] op = "getAllInactiveStakePools" -> getAllInactiveStakePoolsBody(cs, c, accts)
    [] op = "getAllInactiveBonds" -> getAllInactiveBondsBody(cs, c, accts)
    [] op = "getAllActiveBonds" -> getAllActiveBondsBody(cs, c, accts)

InFlight(c, op) == calls[c].op = op /\ calls[c].pc \notin {"idle", "done"}

\* A caller invokes op in a free slot: the function runs to its first await
\* (or to its end, when it awaits no remote read).
Invoke(c, op, argSet) ==
  /\ calls[c].pc = "idle"
  /\ \E a \in argSet : calls' = BodyOf(op, Enter(calls, c, op, a), c, accounts)
  /\ UNCHANGED accounts

\* The read call c is suspended on is answered and the call runs on.
Resume(c, op) ==
  /\ InFlight(c, op)
  /\ calls' = BodyOf(op, calls, c, accounts)
  /\ UNCHANGED accounts

changeInflation(c) == Invoke(c, "changeInflation", changeInflationArgs) \/ Resume(c, "changeInflation")

changePoolMinimum(c) == Invoke(c, "changePoolMinimum", changePoolMinimumArgs) \/ Resume(c, "changePoolMinimum")

claimBondRewards(c) == Invoke(c, "claimBondRewards", claimBondRewardsArgs) \/ Resume(c, "claimBondRewards")

claimBond(c) == Invoke(c, "claimBond", claimBondArgs) \/ Resume(c, "claimBond")

claimPoolRewards(c) == Invoke(c, "claimPoolRewards", claimPoolRewardsArgs) \/ Resume(c, "claimPoolRewards")

claimRewards(c) == Invoke(c, "claimRewards", claimRewardsArgs) \/ Resume(c, "claimRewards")

closeStakeAccount(c) == Invoke(c, "closeStakeAccount", closeStakeAccountArgs) \/ Resume(c, "closeStakeAccount")

closeStakePool(c) == Invoke(c, "closeStakePool", closeStakePoolArgs) \/ Resume(c, "closeStakePool")

crank(c) == Invoke(c, "crank", crankArgs)

createBond(c) == Invoke(c, "createBond", createBondArgs)

createCentralState(c) == Invoke(c, "createCentralState", createCentralStateArgs)

createStakeAccount(c) == Invoke(c, "createStakeAccount", createStakeAccountArgs)

\* The same, with the pool account written to the cluster by the client.
createStakePoolWrites(c) ==
  \/ /\ calls[c].pc = "idle"
     /\ \E a \in createStakePoolArgs :
          /\ calls' = BodyOf("createStakePool", Enter(calls, c, "createStakePool", a), c, accounts)
          /\ accounts' = [accounts EXCEPT ![Pool2] =
               StakePoolAccount(TagStakePool, a.owner, Vault3)]
  \/ Resume(c, "createStakePool")

createStakePool(c) == Invoke(c, "createStakePool", createStakePoolArgs) \/ Resume(c, "createStakePool")

signBond(c) == Invoke(c, "signBond", signBondArgs)

stake(c) == Invoke(c, "stake", stakeArgs) \/ Resume(c, "stake")

unlockBondTokens(c) == Invoke(c, "unlockBondTokens", unlockBondTokensArgs) \/ Resume(c, "unlockBondTokens")

unstake(c) == Invoke(c, "unstake", unstakeArgs) \/ Resume(c, "unstake")

adminMint(c) == Invoke(c, "adminMint", adminMintArgs) \/ Resume(c, "adminMint")

getStakeAccounts(c) == Invoke(c, "getStakeAccounts", OwnerArgs) \/ Resume(c, "getStakeAccounts")

getStakePools(c) == Invoke(c, "getStakePools", OwnerArgs) \/ Resume(c, "getStakePools")

getBondAccounts(c) == Invoke(c, "getBondAccounts", OwnerArgs) \/ Resume(c, "getBondAccounts")

getAllStakePools(c) == Invoke(c, "getAllStakePools", NoArgs) \/ Resume(c, "getAllStakePools")

getAllInactiveStakePools(c) == Invoke(c, "getAllInactiveStakePools", NoArgs) \/ Resume(c, "getAllInactiveStakePools")

getAllInactiveBonds(c) == Invoke(c, "getAllInactiveBonds", NoArgs) \/ Resume(c, "getAllInactiveBonds")

getAllActiveBonds(c) == Invoke(c, "getAllActiveBonds", NoArgs) \/ Resume(c, "getAllActiveBonds")

\* The caller takes the settled promise; the activation is gone.
Collect(c) ==
  /\ calls[c].pc = "done"
  /\ calls' = [calls EXCEPT ![c] = Idle]
  /\ UNCHANGED accounts

\* What the on-chain program may do to the accounts meanwhile: move a stake
\* account to the other pool, give a pool another vault, close a pool.
ChainWrites ==
  { <<StakeAcc1, StakeAccountAccount(Bob, Pool1)>>,
    <<StakeAcc1, StakeAccountAccount(Bob, Pool2)>>,
    <<Pool1, StakePoolAccount(TagStakePool, Alice, Vault1)>>,
    <<Pool1, StakePoolAccount(TagStakePool, Alice, Vault3)>>,
    <<Pool2, StakePoolAccount(TagInactiveStakePool, Bob, Vault2)>>,
    <<Pool2, Missing>> }

OnChain ==
  /\ \E w \in ChainWrites :
       /\ accounts[w[1]] # w[2]
       /\ accounts' = [accounts EXCEPT ![w[1]] = w[2]]
  /\ UNCHANGED calls

Init ==
  /\ accounts \in Clusters
  /\ calls = [c \in Calls |-> Idle]

BuilderStep(c) ==
  \/ changeInflation(c)
  \/ changePoolMinimum(c)
  \/ claimBondRewards(c)
  \/ claimBond(c)
  \/ claimPoolRewards(c)
  \/ claimRewards(c)
  \/ closeStakeAccount(c)
  \/ closeStakePool(c)
  \/ crank(c)
  \/ createBond(c)
  \/ createCentralState(c)
  \/ createStakeAccount(c)
  \/ createStakePool(c)
  \/ signBond(c)
  \/ stake(c)
  \/ unlockBondTokens(c)
  \/ unstake(c)
  \/ adminMint(c)

LocatorStep(c) ==
  \/ getStakeAccounts(c)
  \/ getStakePools(c)
  \/ getBondAccounts(c)
  \/ getAllStakePools(c)
  \/ getAllInactiveStakePools(c)
  \/ getAllInactiveBonds(c)
  \/ getAllActiveBonds(c)

\* Builder calls, up to NumCalls of them in flight at once, against a
\* cluster nothing writes to.
Next == \E c \in Calls : BuilderStep(c) \/ Collect(c)

Spec == Init /\ [][Next]_vars

\* One caller making builder and locator calls one after the other.
NextSeq == BuilderStep(1) \/ LocatorStep(1) \/ Collect(1)

SpecSeq == Init /\ [][NextSeq]_vars

\* stake and unstake calls while the on-chain program changes the accounts.
InitChain ==
  /\ accounts = FullCluster
  /\ calls = [c \in Calls |-> Idle]

NextChain ==
  \/ \E c \in Calls : stake(c) \/ unstake(c) \/ Collect(c)
  \/ OnChain

SpecChain == InitChain /\ [][NextChain]_vars

(***************************************************************************)
(* Properties.                                                             *)
(***************************************************************************)
Settled(c) == calls[c].pc = "done"
Fulfilled(c) == Settled(c) /\ calls[c].ret.type # "error"
Failed(c) == Settled(c) /\ calls[c].ret.type = "error"

\* The getProgramAccounts request a locator call has built.
RequestOf(me) == IF me.pending # NoRequest THEN me.pending ELSE me.reads[1].request
FiltersOf(me) == RequestOf(me).filters

OwnerScoped == {"getStakeAccounts", "getStakePools", "getBondAccounts"}

\* C1: every builder whose remote reads all succeed returns the instruction
\* descriptor it built (one instruction, or the list of them): none is
\* fulfilled with an undefined or empty result.
C1_BuildersReturnWhatTheyBuilt ==
  \A c \in Calls :
    (Fulfilled(c) /\ calls[c].op \in Builders) =>
      \/ /\ calls[c].ret.type = "instruction"
         /\ calls[c].ret.ix.keys # <<>>
      \/ /\ calls[c].ret.type = "instructions"
         /\ calls[c].ret.ixs # <<>>

\* The discriminator values the data model documents for each locator.
DocumentedDiscriminator(op) ==
  CASE op \in {"getStakePools", "getAllStakePools"} -> 2
    [] op = "getAllInactiveStakePools" -> 3
    [] op = "getStakeAccounts" -> 4
    [] op = "getAllInactiveBonds" -> 5
    [] op \in {"getBondAccounts", "getAllActiveBonds"} -> 6

\* C2 (as stated): the byte the first filter of every locator requires at
\* offset 0, decoded from its pattern as the node decodes it, is the
\* documented discriminator: 2, 3, 4, 5 or 6.
C2_FilterByteIsDocumented ==
  \A c \in Calls :
    (calls[c].op \in Locators) =>
      LET f == FiltersOf(calls[c])[1].memcmp
      IN  f.offset = 0 /\ Base58Decode(f.bytes) = <<DocumentedDiscriminator(calls[c].op)>>

\* C2 (amended): the pattern is a single base58 character, so the byte
\* required at offset 0 is one less than the digit written: 1 for
\* getStakePools and getAllStakePools, 2 for getAllInactiveStakePools, 3 for
\* getStakeAccounts, 4 for getAllInactiveBonds, 5 for getBondAccounts and
\* getAllActiveBonds.
C2_FilterByteIsOneLess ==
  \A c \in Calls :
    (calls[c].op \in Locators) =>
      LET f == FiltersOf(calls[c])[1].memcmp
      IN  /\ f.offset = 0
          /\ Base58Decode(f.bytes) = <<DocumentedDiscriminator(calls[c].op) - 1>>

C2_Witness ==
  /\ Fulfilled(1)
  /\ calls[1].op = "getStakeAccounts"
  /\ calls[1].args.owner = Bob
  /\ calls[1].ret.keys = {StakeAcc1}

\* C3: an owner-scoped locator builds exactly two filters, the first at
\* offset 0 and the second at the owner offset of the account type (1 for
\* stake and bond accounts, 32 for stake pools) with a pattern the node
\* decodes to exactly the bytes of the owner's address; the other locators
\* build exactly one filter, at offset 0.
C3_OwnerFilter ==
  \A c \in Calls :
    (calls[c].op \in Locators) =>
      LET fs == FiltersOf(calls[c])
      IN  /\ fs[1].memcmp.offset = 0
          /\ IF calls[c].op \in OwnerScoped
               THEN /\ Len(fs) = 2
                    /\ fs[2].memcmp.offset =
                         (IF calls[c].op = "getStakePools" THEN 32 ELSE 1)
                    /\ Base58Decode(fs[2].memcmp.bytes) = ToBuffer(calls[c].args.owner)
                    /\ fs[2].memcmp.bytes = Base58Encode(ToBuffer(calls[c].args.owner))
               ELSE Len(fs) = 1

C3_Witness ==
  /\ Fulfilled(1)
  /\ calls[1].op = "getStakePools"
  /\ calls[1].args.owner = Alice
  /\ calls[1].ret.keys = {Pool1}

IsBondOf(acct, owner) ==
  /\ acct.kind = "BondAccount"
  /\ acct.tag \in {TagInactiveBondAccount, TagBondAccount}
  /\ acct.owner = owner

\* C4: getBondAccounts finds all bonds of a user: it returns every bond
\* account whose owner field is the given owner, inactive or active, and
\* nothing else.
C4_FindsAllBondsOfOwner ==
  \A c \in Calls :
    (Fulfilled(c) /\ calls[c].op = "getBondAccounts") =>
      calls[c].ret.keys =
        {k \in DOMAIN accounts : IsBondOf(accounts[k], calls[c].args.owner)}

\* C5: builders are deterministic: two calls of the same builder with the
\* same arguments against the same cluster settle with the same result,
\* whatever other calls ran before or in between.
C5_Deterministic ==
  \A c, d \in Calls :
    (Settled(c) /\ Settled(d) /\ calls[c].op = calls[d].op
       /\ calls[c].args = calls[d].args) =>
      calls[c].ret = calls[d].ret

C5_Witness ==
  /\ Fulfilled(1) /\ Fulfilled(2)
  /\ calls[1].op = "stake" /\ calls[2].op = "stake"
  /\ calls[1].args = calls[2].args
  /\ calls[1].args.stakeAccount = StakeAcc2
  /\ calls[1].ret.type = "instruction"

NoRepeat(reads) ==
  \A i, j \in 1..Len(reads) : reads[i].request = reads[j].request => i = j

\* C6: a builder call is rejected exactly when one of its reads failed, and
\* then with the error of that read, unchanged; the failed read is the last
\* one the call made (no read follows it, none is pending), no request was
\* sent twice, and no instruction is returned.
C6_ErrorsPassThrough ==
  \A c \in Calls :
    (Settled(c) /\ calls[c].op \in Builders) =>
      LET me == calls[c]
          n == Len(me.reads)
      IN  /\ me.pending = NoRequest
          /\ NoRepeat(me.reads)
          /\ \A i \in 1..(n - 1) : me.reads[i].response.ok
          /\ (me.ret.type = "error") <=> (n > 0 /\ ~me.reads[n].response.ok)
          /\ (me.ret.type = "error") =>
               /\ me.ret = Rejected(me.reads[n].response.error)
               /\ me.reads[n].response =
                    Retrieve(accounts, me.reads[n].request.kind,
                             me.reads[n].request.key)

C6_Witness ==
  /\ Failed(1)
  /\ calls[1].op = "claimBondRewards"
  /\ calls[1].ret.error.name = "AccountNotFound"
  /\ calls[1].ret.error.kind = "CentralState"
  /\ Len(calls[1].reads) = 1
  /\ Failed(2)
  /\ calls[2].op = "claimRewards"
  /\ Len(calls[2].reads) = 2

\* C7: no step of a builder or locator call changes the accounts of the
\* cluster, and nothing is kept from one call to the next: a slot left by a
\* call is empty, and a call entered starts with no locals and no reads.
C7_NoSideEffects ==
  [][ /\ accounts' = accounts
      /\ DOMAIN accounts' = AcctKeys
      /\ (calls'[1].pc = "idle" => calls'[1] = Idle)
      /\ (calls[1].pc = "idle" /\ calls'[1].pc # "idle" =>
            calls'[1].locals = NoLocals /\ calls'[1].reads = <<>>) ]_vars

C7_Witness ==
  /\ Fulfilled(1)
  /\ calls[1].op = "createStakePool"
  /\ calls[1].ret.type = "instructions"
  /\ accounts = FullCluster

\* The states a call of op on arguments a goes through when it runs with
\* no other call in flight.
RECURSIVE SoloFrom(_, _, _)
SoloFrom(op, cs, accts) ==
  IF cs[1].pc = "done" THEN {cs[1]}
  ELSE {cs[1]} \cup SoloFrom(op, BodyOf(op, cs, 1, accts), accts)

Solo(op, a, accts) ==
  SoloFrom(op, BodyOf(op, Enter([c \in {1} |-> Idle], 1, op, a), 1, accts), accts)

\* C8: calls in flight at the same time do not interact: in every
\* interleaving, every call is in a state (locals, requests, result or
\* error) that it goes through when it runs alone.
C8_Independent ==
  \A c \in Calls :
    (calls[c].pc # "idle") =>
      calls[c] \in Solo(calls[c].op, calls[c].args, accounts)

C8_Witness ==
  /\ Fulfilled(1)
  /\ calls[1].op = "stake"
  /\ calls[1].args.stakeAccount = StakeAcc1
  /\ calls[2].op = "unstake"
  /\ calls[2].args.stakeAccount = StakeAcc2
  /\ calls[2].pc = "L500"

\* C9: stake and unstake read the stake account at the caller's address and
\* then the pool at the address found in it, in that order; the pool and
\* owner accounts of the instruction are those of the stake account read,
\* and the vault is that of the pool read at that same pool address.
C9_PoolAndVaultAgree ==
  \A c \in Calls :
    (calls[c].op \in {"stake", "unstake"}) =>
      LET me == calls[c]
          sent == [i \in 1..Len(me.reads) |-> me.reads[i].request] \o
                  (IF me.pending = NoRequest THEN <<>> ELSE <<me.pending>>)
      IN  /\ Len(sent) >= 1
          /\ Len(sent) <= 2
          /\ sent[1] = AccountRequest("StakeAccount", me.args.stakeAccount)
          /\ Len(sent) = 2 =>
               /\ me.reads[1].response.ok
               /\ sent[2] = AccountRequest("StakePool",
                                           me.reads[1].response.value.stakePool)
          /\ Fulfilled(c) =>
               /\ me.ret.type = "instruction"
               /\ Len(me.reads) = 2
               /\ me.ret.ix.keys[1] = me.args.stakeAccount
               /\ me.ret.ix.keys[2] = me.reads[1].response.value.stakePool
               /\ me.ret.ix.keys[3] = me.reads[1].response.value.owner
               /\ me.ret.ix.keys[6] = me.reads[2].response.value.vault
               /\ me.reads[2].request.key = me.ret.ix.keys[2]

C9_Witness ==
  /\ Fulfilled(1)
  /\ calls[1].op = "stake"
  /\ calls[1].args.stakeAccount = StakeAcc1
  /\ calls[1].ret.ix.keys[2] = Pool1
  /\ calls[1].ret.ix.keys[6] = Vault3
  /\ accounts[StakeAcc1].stakePool = Pool2
  /\ accounts[Pool2] = Missing

\* C10: createStakePool, when the central state is read, returns two
\* instructions: the creation of the vault token account, then
\* create-stake-pool.  Both name the same vault, the associated token
\* address of the mint read and the pool address derived from (programId,
\* owner, destination); the payload carries the nonce of that derivation
\* and the caller's name, owner, destination and minimumStakeAmount.
C10_CreateStakePool ==
  \A c \in Calls :
    (Settled(c) /\ calls[c].op = "createStakePool"
       /\ calls[c].reads[1].response.ok) =>
      LET me == calls[c]
          a == me.args
          derived == StakePoolGetKey(a.programId, a.owner, a.destination)
          mint == me.reads[1].response.value.tokenMint
          vault == GetAssociatedTokenAddress(
                     ASSOCIATED_TOKEN_PROGRAM_ID, TOKEN_PROGRAM_ID, mint, derived[1])
      IN  /\ me.ret.type = "instructions"
          /\ Len(me.ret.ixs) = 2
          /\ me.ret.ixs[1].data.instruction = "createAssociatedTokenAccount"
          /\ me.ret.ixs[1].keys[2] = vault
          /\ me.ret.ixs[1].keys[3] = derived[1]
          /\ me.ret.ixs[1].keys[4] = mint
          /\ me.ret.ixs[2].data.instruction = "createStakePool"
          /\ me.ret.ixs[2].programId = a.programId
          /\ me.ret.ixs[2].keys[1] = derived[1]
          /\ me.ret.ixs[2].keys[4] = vault
          /\ me.ret.ixs[2].data.fields =
               [nonce |-> derived[2], name |-> a.name,
                owner |-> ToBuffer(a.owner),
                minimumStakeAmount |-> a.minimumStakeAmount,
                destination |-> ToBuffer(a.destination)]

C10_Witness ==
  /\ Fulfilled(1)
  /\ calls[1].op = "createStakePool"
  /\ calls[1].args.owner = Bob
  /\ Len(calls[1].ret.ixs) = 2
  /\ calls[1].ret.ixs[2].keys[4] = calls[1].ret.ixs[1].keys[2]

=============================================================================
